---- MODULE Spec2Model ----
(***************************************************************************)
(* blockminmax.c as a state machine: one run of main() from the command    *)
(* line to process exit (specification Spec), and the reference script     *)
(* blockminmax.tcl as a second state machine over variables of its own     *)
(* (specification SpecTcl).                                                *)
(*                                                                         *)
(* Numbers.  A double that holds a coordinate, a bound or an increment is  *)
(* an exact decimal: an integer count of 1/Scale.  An input coordinate     *)
(* carries in addition a "fine" part e, a count of units of                *)
(* 1e-12 / EpsFine, so that offsets inside and outside the 1e-12 guard of  *)
(* the --tclround mapping are both inputs.  Arithmetic on them is exact.   *)
(* size_t and long long are WordBits wide (the width is scaled down from   *)
(* 64 so that the overflow cases of the code are within reach); size_t     *)
(* arithmetic is modulo 2^WordBits.                                        *)
(***************************************************************************)
EXTENDS Integers, Sequences, FiniteSets, TLC

VARIABLES
    pc,        \* position in main(): "start", "dims", "alloc", "open", "stream", or an end state
    argv,      \* the command line and the files it names
    opt,       \* Options, as parse_args returns it
    nx, ny,    \* lattice dimensions (size_t)
    ncell,     \* cell count (size_t)
    gridLen,   \* number of doubles the grid allocation holds
    grid,      \* double *grid, indexed 0 .. ncell-1
    hit,       \* unsigned char *hit, indexed 0 .. ncell-1
    heapOk,    \* FALSE once a store has landed outside an allocation
    file,      \* the lines of the input file, as of fopen
    pos,       \* how many of them fgets has returned
    routed,    \* per accepted point, in order: the line, ix_ll, iy_ll, ix, iy, idx
    outOpen,   \* TRUE once fopen(opt.out, "w") has succeeded
    out,       \* the records written to fout, in order
    err,       \* the error message on stderr ("" if none)
    exit,      \* process exit: "running", "success", "failure", "abort"
    \* blockminmax.tcl
    tpc,       \* position in the script: "off", "args", "nodes", "read", "write", or an end state
    targv,     \* the script's command line
    tcl,       \* its globals xmin .. ymax, find_min, preset, fix_min, tie_lower, gotregion, gotpath
    l_x, l_y,  \* the node lists
    ar,        \* the array ar(x,y), keyed by <<x, y>>
    tin,       \* the lines of the input file, as of open
    tpos,      \* how many of them gets has returned
    writes,    \* per line processed, in order: the line and the key <<x, y>> it was snapped to
    tout       \* the records written to $path.$ending, in order

cVars == <<pc, argv, opt, nx, ny, ncell, gridLen, grid, hit, heapOk,
           file, pos, routed, outOpen, out, err, exit>>

tclVars == <<tpc, targv, tcl, l_x, l_y, ar, tin, tpos, writes, tout>>

vars == <<cVars, tclVars>>

-----------------------------------------------------------------------------
(* Representation *)

Scale == 100        \* coordinate units per 1.0
EpsFine == 2        \* eps = 1e-12, in fine units
WordBits == 8       \* width of size_t and of long long
MaxLines == 3       \* length of an input file

SIZE_MAX == 2^WordBits - 1
LLONG_MAX == 2^(WordBits - 1) - 1
LLONG_MIN == -(2^(WordBits - 1))
SizeofDouble == 8

\* A double that may be non-finite: k is "fin", "nan", "inf" or "-inf"
Fin(v) == [k |-> "fin", v |-> v]
NaN == [k |-> "nan", v |-> 0]
PosInf == [k |-> "inf", v |-> 0]
NegInf == [k |-> "-inf", v |-> 0]

\* a < b on doubles (false when either is NaN)
Less(a, b) ==
    IF a.k = "nan" \/ b.k = "nan" THEN FALSE
    ELSE IF a.k = "inf" \/ b.k = "-inf" THEN FALSE
    ELSE IF a.k = "-inf" \/ b.k = "inf" THEN TRUE
    ELSE a.v < b.v

\* a <= b on doubles (false when either is NaN)
LessEq(a, b) == a.k # "nan" /\ b.k # "nan" /\ ~Less(b, a)

\* (size_t) of a long long / arithmetic modulo 2^WordBits
ToSizeT(v) == v % (SIZE_MAX + 1)

\* (long long) of a size_t
ToLL(u) == IF u > LLONG_MAX THEN u - (SIZE_MAX + 1) ELSE u

-----------------------------------------------------------------------------
(* Command lines *)

\* -Rxmin/xmax/ymin/ymax, in 1/Scale; given = FALSE when there is no -R
Region(g, x0, x1, y0, y1) ==
    [given |-> g, xmin |-> x0, xmax |-> x1, ymin |-> y0, ymax |-> y1]

Regions == {
    Region(FALSE, 0, 0, 0, 0),
    Region(TRUE, 0, 200, 0, 200),       \* the test region
    Region(TRUE, -100, 150, 0, 100),    \* 2.5 wide: a half step
    Region(TRUE, 200, 0, 0, 200),       \* xmax < xmin
    Region(TRUE, 0, 200, 100, 100),     \* ymax = ymin
    Region(TRUE, 0, 700, 0, 700),       \* 64 cells at spacing 1
    Region(TRUE, 0, 20000, 0, 200) }    \* 201 columns at spacing 1, 401 at 0.5

\* -Iinc, in 1/Scale; given = FALSE when there is no -I
Inc(g, d) == [given |-> g, val |-> d]

Incs == {Inc(FALSE, Fin(0)), Inc(TRUE, Fin(50)), Inc(TRUE, Fin(100)),
         Inc(TRUE, Fin(0)), Inc(TRUE, Fin(-100)), Inc(TRUE, NaN)}

\* an argument other than -R, -I, -PATH, -MAX, -o, --tclround, -h
Extras == {"none", "--gmtbin", "--tclfmt"}

Argvs ==
    [R : Regions, I : Incs, MAX : BOOLEAN, tclround : BOOLEAN,
     extra : Extras,
     PATH : {"none", "readable", "unreadable"},
     o : {"writable", "unwritable"}]

NoOpt == [xmin |-> 0, xmax |-> 0, ymin |-> 0, ymax |-> 0, inc |-> Fin(Scale),
          find_min |-> TRUE, tcl_round |-> FALSE, path |-> FALSE]

-----------------------------------------------------------------------------
(* Input lines *)

Num(c, e) == [c |-> c, e |-> e]
Point(x, y, z) == [kind |-> "point", x |-> x, y |-> y, z |-> z]
Skipped(k) == [kind |-> k, x |-> Num(0, 0), y |-> Num(0, 0), z |-> 0]

\* The lines a file may hold, by their text (kind) and the three numbers
\* strtod reads from them.  A "point" line has three whitespace-separated
\* numeric tokens; a "comment" line is blank or starts with '#'; a
\* "malformed" line starts with a token that is no number; a "glued" line is
\* one token, "2-2-7", with neither blank nor tab in it; a "nanz" line has
\* the token "nan" as its third, for which strtod returns NaN.
\* The point (90, -500) is far outside every region; an offset too large for
\* long long is a whole number, as every double above 2^53 is.
Lines == {
    Point(Num(-25, 1), Num(-49, 0), 500),
    Point(Num(50, 0),  Num(50, 0),  1000),
    Point(Num(50, 1),  Num(50, 3),  300),
    Point(Num(-50, 0), Num(150, 0), 500),
    Point(Num(9000, 0), Num(-50000, 0), 300),
    [kind |-> "glued", x |-> Num(200, 0), y |-> Num(-200, 0), z |-> -700],
    [kind |-> "nanz", x |-> Num(50, 0), y |-> Num(50, 0), z |-> 0],
    Skipped("comment"),
    Skipped("malformed") }

\* testdata_small.xyz of test_blockminmax.sh
TestData == <<
    Point(Num(-49, 0), Num(-49, 0), 500),
    Point(Num(50, 0),  Num(50, 0),  1000),
    Point(Num(200, 0), Num(200, 0), 900),
    Point(Num(149, 0), Num(49, 0),  700) >>

\* The input files: every file of at most MaxLines lines, and the test data
Files ==
    UNION { [1 .. n -> Lines] : n \in 0 .. MaxLines } \cup {TestData}

-----------------------------------------------------------------------------
(* blockminmax.tcl: command lines, globals and input *)

\* the script's arguments: -R, -PATH, -MAX, -FIXMIN, -TIELOW.  The bounds of
\* -R have at most one decimal.
TclRegions == {
    Region(FALSE, 0, 0, 0, 0),
    Region(TRUE, 0, 200, 0, 200),
    Region(TRUE, -100, 150, 0, 100) }

TclArgvs ==
    [R : TclRegions, MAX : BOOLEAN, FIXMIN : BOOLEAN, TIELOW : BOOLEAN,
     PATH : {"none", "readable"}]

\* 1e10 and -1e10, which no modelled z reaches: s is 1 or -1
E10(s) == [k |-> "e10", v |-> s]

\* the globals as set before the argument loop
TclGlobals ==
    [xmin |-> 0, xmax |-> 0, ymin |-> 0, ymax |-> 0,
     find_min |-> TRUE, preset |-> E10(1),
     fix_min |-> FALSE, tie_lower |-> FALSE,
     gotregion |-> FALSE, gotpath |-> FALSE]

\* The lines the script's input may hold: points "x y z", and the empty
\* line, at which "while {[gets $fin line] > 0}" ends.
TclLines == {
    Point(Num(-49, 0), Num(-49, 0), 500),
    Point(Num(50, 0),  Num(50, 0),  1000),
    Point(Num(50, 1),  Num(50, 3),  300),
    Point(Num(100, 0), Num(0, 0),   700),
    Point(Num(9000, 0), Num(-50000, 0), 300),
    Skipped("blank") }

TclFiles == UNION { [1 .. n -> TclLines] : n \in 0 .. MaxLines }

\* the script is not running
TclOff ==
    /\ tpc = "off"
    /\ targv = [R |-> Region(FALSE, 0, 0, 0, 0), MAX |-> FALSE,
                FIXMIN |-> FALSE, TIELOW |-> FALSE, PATH |-> "none"]
    /\ tcl = TclGlobals
    /\ l_x = <<>> /\ l_y = <<>>
    /\ ar = <<>>
    /\ tin = <<>>
    /\ tpos = 0
    /\ writes = <<>>
    /\ tout = <<>>

-----------------------------------------------------------------------------
(* Initial state: the process has started, nothing has run *)

Init ==
    /\ TclOff
    /\ pc = "start"
    /\ argv \in Argvs
    /\ opt = NoOpt
    /\ nx = 0 /\ ny = 0 /\ ncell = 0 /\ gridLen = 0
    /\ grid = <<>> /\ hit = <<>>
    /\ heapOk = TRUE
    /\ file = <<>>
    /\ pos = 0
    /\ routed = <<>>
    /\ outOpen = FALSE
    /\ out = <<>>
    /\ err = ""
    /\ exit = "running"

\* print msg on stderr and exit(EXIT_FAILURE)
Die(msg) ==
    /\ pc' = "failed"
    /\ err' = msg
    /\ exit' = "failure"

-----------------------------------------------------------------------------
(* parse_args *)

\* The arguments are given in the order -R -I -PATH -MAX --tclround <extra> -o.
\* The loop exits on the first bad argument; the checks after the loop run
\* only when every argument was accepted.
ArgLoopError(a) ==
    IF a.I.given /\ LessEq(a.I.val, Fin(0)) THEN "-I must be > 0"
    ELSE IF a.extra # "none" THEN "Unknown option"
    ELSE ""

ParsedOptions(a) ==
    [xmin |-> a.R.xmin, xmax |-> a.R.xmax,
     ymin |-> a.R.ymin, ymax |-> a.R.ymax,
     inc  |-> IF a.I.given THEN a.I.val ELSE Fin(Scale),
     find_min |-> ~a.MAX,
     tcl_round |-> a.tclround,
     path |-> a.PATH # "none"]

SanityError(o) ==
    IF ~o.path THEN "Missing input path"
    ELSE IF ~(o.xmax > o.xmin /\ o.ymax > o.ymin) THEN "Invalid region"
    ELSE ""

ParseArgs ==
    /\ pc = "start"
    /\ IF ArgLoopError(argv) # ""
       THEN Die(ArgLoopError(argv)) /\ UNCHANGED opt
       ELSE IF SanityError(ParsedOptions(argv)) # ""
       THEN Die(SanityError(ParsedOptions(argv))) /\ UNCHANGED opt
       ELSE /\ opt' = ParsedOptions(argv)
            /\ pc' = "dims"
            /\ UNCHANGED <<err, exit>>
    /\ UNCHANGED <<tclVars, argv, nx, ny, ncell, gridLen, grid, hit, heapOk,
                   file, pos, routed, outOpen, out>>

-----------------------------------------------------------------------------
(* main: grid dimensions *)

\* floor(((hi - lo) / inc) + 0.5) + 1.0
DimD(lo, hi, inc) ==
    IF inc.k = "nan" THEN NaN
    ELSE Fin(((2 * (hi - lo) + inc.v) \div (2 * inc.v)) + 1)

\* (size_t)d for a double d >= 1.0: the value when it fits; otherwise the
\* conversion is undefined, and builds give 0 or SIZE_MAX
CastSizeT(d) == IF d.v <= SIZE_MAX THEN {d.v} ELSE {0, SIZE_MAX}

ComputeDims ==
    /\ pc = "dims"
    /\ LET nx_d == DimD(opt.xmin, opt.xmax, opt.inc)
           ny_d == DimD(opt.ymin, opt.ymax, opt.inc)
       IN  IF ~(LessEq(Fin(1), nx_d) /\ LessEq(Fin(1), ny_d))
           THEN Die("Computed grid dimensions invalid") /\ UNCHANGED <<nx, ny>>
           ELSE /\ nx' \in CastSizeT(nx_d)
                /\ ny' \in CastSizeT(ny_d)
                /\ pc' = "cells"
                /\ UNCHANGED <<err, exit>>
    /\ UNCHANGED <<tclVars, argv, opt, ncell, gridLen, grid, hit, heapOk,
                   file, pos, routed, outOpen, out>>

\* safe_mul_size_t without the range check: the product modulo 2^WordBits
safe_mul_unchecked(a, b) == [dies |-> FALSE, val |-> ToSizeT(a * b)]

\* safe_mul_size_t: the product, or "overflow" when it dies
safe_mul_size_t(a, b) ==
    IF a = 0 \/ b = 0 THEN [dies |-> FALSE, val |-> 0]
    ELSE IF a > SIZE_MAX \div b THEN [dies |-> TRUE, val |-> 0]
    ELSE [dies |-> FALSE, val |-> ToSizeT(a * b)]

CellCount ==
    /\ pc = "cells"
    /\ LET m == safe_mul_size_t(nx, ny)
       IN  IF m.dies
           THEN Die("Grid size too large (overflow)") /\ UNCHANGED ncell
           ELSE ncell' = m.val /\ pc' = "alloc" /\ UNCHANGED <<err, exit>>
    /\ UNCHANGED <<tclVars, argv, opt, nx, ny, gridLen, grid, hit, heapOk,
                   file, pos, routed, outOpen, out>>

-----------------------------------------------------------------------------
(* main: allocation and initialisation *)

\* the byte count malloc receives: ncell * sizeof(double) in size_t
GridBytes(n) == ToSizeT(n * SizeofDouble)

\* malloc and calloc succeed
Allocate ==
    /\ pc = "alloc"
    /\ gridLen' = GridBytes(ncell) \div SizeofDouble
    /\ hit' = [i \in 0 .. ncell - 1 |-> FALSE]
    /\ pc' = "init"
    /\ UNCHANGED <<tclVars, argv, opt, nx, ny, ncell, grid, heapOk,
                   file, pos, routed, outOpen, out, err, exit>>

\* malloc or calloc returns NULL: "Out of memory allocating ..."
AllocateFails ==
    /\ pc = "alloc"
    /\ Die("Out of memory")
    /\ UNCHANGED <<tclVars, argv, opt, nx, ny, ncell, gridLen, grid, hit, heapOk,
                   file, pos, routed, outOpen, out>>

Preset(o) == IF o.find_min THEN PosInf ELSE NegInf

\* for (i = 0; i < ncell; ++i) grid[i] = preset, inside the allocation
InitGrid ==
    /\ pc = "init"
    /\ ncell <= gridLen
    /\ grid' = [i \in 0 .. ncell - 1 |-> Preset(opt)]
    /\ pc' = "open"
    /\ UNCHANGED <<tclVars, argv, opt, nx, ny, ncell, gridLen, hit, heapOk,
                   file, pos, routed, outOpen, out, err, exit>>

\* the same loop when the allocation is shorter than ncell doubles: it
\* stores past the end of the block until the process is killed
InitGridOverrun ==
    /\ pc = "init"
    /\ ncell > gridLen
    /\ heapOk' = FALSE
    /\ pc' = "crashed"
    /\ exit' = "abort"
    /\ UNCHANGED <<tclVars, argv, opt, nx, ny, ncell, gridLen, grid, hit,
                   file, pos, routed, outOpen, out, err>>

-----------------------------------------------------------------------------
(* main: files *)

OpenFiles ==
    /\ pc = "open"
    /\ IF argv.PATH # "readable"
       THEN Die("Failed to open input file") /\ UNCHANGED <<file, outOpen>>
       ELSE IF argv.o # "writable"
       THEN Die("Failed to open output file") /\ UNCHANGED <<file, outOpen>>
       ELSE /\ file' \in Files
            /\ outOpen' = TRUE
            /\ pc' = "stream"
            /\ UNCHANGED <<err, exit>>
    /\ UNCHANGED <<tclVars, argv, opt, nx, ny, ncell, gridLen, grid, hit, heapOk,
                   pos, routed, out>>

-----------------------------------------------------------------------------
(* main: coordinate mapping *)

\* The offset t = (v - lo) / inc of a coordinate v = v.c/Scale + v.e fine
\* units is n/d plus the fine part, with n = v.c - lo and d = inc.  The
\* fine part is far smaller than 1/(2d), so it decides only exact cases.

\* floor(t)
Floor(n, d, e) == IF n % d = 0 /\ e < 0 THEN (n \div d) - 1 ELSE n \div d

\* t - floor(t) >= 0.5: the comparison without the guard, halves included
FracAtLeastHalf(n, d, e) ==
    IF n % d = 0 /\ e < 0 THEN TRUE
    ELSE IF 2 * (n % d) # d THEN 2 * (n % d) > d
    ELSE e >= 0

\* t - floor(t) > 0.5 + eps.  At n/d exactly half way the fine part of t is
\* e * Scale / (EpsFine * d) times eps.
FracAboveHalfEps(n, d, e) ==
    IF n % d = 0 /\ e < 0 THEN TRUE
    ELSE IF 2 * (n % d) # d THEN 2 * (n % d) > d
    ELSE e * Scale > EpsFine * d

\* round(t) with halves to the even neighbour, as lrint rounds
RoundHalfEven(n, d, e) ==
    IF 2 * (n % d) < d THEN n \div d
    ELSE IF 2 * (n % d) > d THEN (n \div d) + 1
    ELSE IF e > 0 THEN (n \div d) + 1
    ELSE IF e < 0 THEN n \div d
    ELSE IF (n \div d) % 2 = 0 THEN n \div d ELSE (n \div d) + 1

\* round(t), halves away from zero, as a mathematical integer
RoundHalfAway(n, d, e) ==
    IF 2 * (n % d) < d THEN n \div d
    ELSE IF 2 * (n % d) > d THEN (n \div d) + 1
    ELSE IF e > 0 THEN (n \div d) + 1
    ELSE IF e < 0 THEN n \div d
    ELSE IF n >= 0 THEN (n \div d) + 1 ELSE n \div d

\* a mathematical integer as long long: itself when it fits; otherwise what
\* the conversion produces is unspecified, and builds give either extreme
AsLongLong(m) ==
    IF LLONG_MIN <= m /\ m <= LLONG_MAX THEN {m} ELSE {LLONG_MIN, LLONG_MAX}

\* llround((v - lo) / inc)
LLRound(v, lo, inc) == AsLongLong(RoundHalfAway(v.c - lo, inc.v, v.e))

\* (long long)((frac > 0.5 + eps) ? (f + 1.0) : f)
TclRound(v, lo, inc) ==
    LET n == v.c - lo
        d == inc.v
    IN  AsLongLong(IF FracAboveHalfEps(n, d, v.e)
                   THEN Floor(n, d, v.e) + 1 ELSE Floor(n, d, v.e))

\* the index before clamping
RawIndex(v, lo, o) ==
    IF ~o.tcl_round THEN LLRound(v, lo, o.inc) ELSE TclRound(v, lo, o.inc)

\* if (i < 0) i = 0; else if ((unsigned long long)i >= n) i = (long long)n - 1;
\* then (size_t)i
Clamp(i, n) ==
    ToSizeT(IF i < 0 THEN 0 ELSE IF i >= n THEN ToLL(n) - 1 ELSE i)

\* size_t idx = ix + (size_t)nx * iy
CellIndex(ix, iy, n) == ToSizeT(ix + n * iy)

\* the cells a point line can be sent to: one, unless a conversion is out
\* of range
Targets(line, o, n, m) ==
    { [line |-> line, ix_ll |-> i, iy_ll |-> j,
       ix |-> Clamp(i, n), iy |-> Clamp(j, m),
       idx |-> CellIndex(Clamp(i, n), Clamp(j, m), n)] :
         i \in RawIndex(line.x, o.xmin, o),
         j \in RawIndex(line.y, o.ymin, o) }

-----------------------------------------------------------------------------
(* main: the update and the streaming loop *)

\* if (!hit[idx] || z < grid[idx]) grid[idx] = z;  (min)
\* if (!hit[idx] || z > grid[idx]) grid[idx] = z;  (max)
Replaces(o, wasHit, z, cur) ==
    IF o.find_min THEN ~wasHit \/ Less(z, cur)
                  ELSE ~wasHit \/ Less(cur, z)

\* the line fgets returns next
NextLine == file[pos + 1]

\* the line passes "if (*p == '\0' || *p == '\n' || *p == '#') continue" and
\* the three "if (errno || end == p) continue": strtod reads a number at p
\* three times in a row, each starting where the last one stopped
Parsed(line) == line.kind \in {"point", "glued", "nanz"}

\* the double z of a parsed line
ZOf(line) == IF line.kind = "nanz" THEN NaN ELSE Fin(line.z)

\* a line that is skipped: blank, comment, or a token strtod rejects
SkipLine ==
    /\ pc = "stream"
    /\ pos < Len(file)
    /\ ~Parsed(NextLine)
    /\ pos' = pos + 1
    /\ UNCHANGED <<tclVars, pc, argv, opt, nx, ny, ncell, gridLen, grid, hit, heapOk,
                   file, routed, outOpen, out, err, exit>>

\* a point whose cell is inside the arrays
UpdateCell ==
    /\ pc = "stream"
    /\ pos < Len(file)
    /\ Parsed(NextLine)
    /\ \E t \in Targets(NextLine, opt, nx, ny) :
         /\ t.idx < ncell
         /\ routed' = Append(routed, t)
         /\ grid' = IF Replaces(opt, hit[t.idx], ZOf(NextLine), grid[t.idx])
                    THEN [grid EXCEPT ![t.idx] = ZOf(NextLine)]
                    ELSE grid
         /\ hit' = [hit EXCEPT ![t.idx] = TRUE]
    /\ pos' = pos + 1
    /\ UNCHANGED <<tclVars, pc, argv, opt, nx, ny, ncell, gridLen, heapOk,
                   file, outOpen, out, err, exit>>

\* a point whose idx is outside the arrays: the loads and stores are
\* undefined; they touch no cell, and the process goes on with a damaged
\* heap or is killed
UpdateOutside ==
    /\ pc = "stream"
    /\ pos < Len(file)
    /\ Parsed(NextLine)
    /\ \E t \in Targets(NextLine, opt, nx, ny) :
         /\ t.idx >= ncell
         /\ routed' = Append(routed, t)
    /\ pos' = pos + 1
    /\ heapOk' = FALSE
    /\ \/ UNCHANGED <<pc, exit>>
       \/ pc' = "crashed" /\ exit' = "abort"
    /\ UNCHANGED <<tclVars, argv, opt, nx, ny, ncell, gridLen, grid, hit,
                   file, outOpen, out, err>>

-----------------------------------------------------------------------------
(* main: output *)

\* The digits of v / Scale after the decimal point, without trailing zeros
FracDigits(v) ==
    LET h == v % Scale
    IN  IF h = 0 THEN <<>>
        ELSE IF h % 10 = 0 THEN <<h \div 10>>
        ELSE <<h \div 10, h % 10>>

\* "%.10g" of the finite double v / Scale: sign, integer part, fraction
\* digits (exact below 10 significant digits)
FmtG(v) ==
    LET a == IF v < 0 THEN -v ELSE v
    IN  [neg |-> v < 0, int |-> a \div Scale, frac |-> FracDigits(a)]

\* "%.10g" of NaN, the text "nan": marked by a fraction digit no number has
NanText == [neg |-> FALSE, int |-> 0, frac |-> <<10>>]

\* fprintf(fout, "%.10g %.10g %.10g\n", gx, gy, gz) for cell idx
Record(idx, o, n, g) ==
    LET ix == idx % n
        iy == idx \div n
    IN  [x |-> FmtG(o.xmin + ix * o.inc.v),
         y |-> FmtG(o.ymin + iy * o.inc.v),
         z |-> IF g[idx].k = "nan" THEN NanText ELSE FmtG(g[idx].v)]

\* Emit without "if (!hit[idx]) continue": every cell is printed
RECURSIVE EmitEveryCell(_, _, _, _, _, _)
EmitEveryCell(first, cnt, o, n, g, h) ==
    IF first >= cnt THEN <<>>
    ELSE <<Record(first, o, n, g)>> \o EmitEveryCell(first + 1, cnt, o, n, g, h)

\* the two loops, iy outer and ix inner, over cells first .. ncell-1
RECURSIVE Emit(_, _, _, _, _, _)
Emit(first, cnt, o, n, g, h) ==
    IF first >= cnt THEN <<>>
    ELSE (IF h[first] THEN <<Record(first, o, n, g)>> ELSE <<>>)
         \o Emit(first + 1, cnt, o, n, g, h)

\* fgets returns NULL: write the cells, close, free, return 0; free() of a
\* damaged heap aborts
WriteResults ==
    /\ pc = "stream"
    /\ pos = Len(file)
    /\ out' = Emit(0, ncell, opt, nx, grid, hit)
    /\ IF heapOk THEN pc' = "done" /\ exit' = "success"
                 ELSE pc' = "crashed" /\ exit' = "abort"
    /\ UNCHANGED <<tclVars, argv, opt, nx, ny, ncell, gridLen, grid, hit, heapOk,
                   file, pos, routed, outOpen, err>>

-----------------------------------------------------------------------------

Next ==
    \/ ParseArgs
    \/ ComputeDims
    \/ CellCount
    \/ Allocate
    \/ AllocateFails
    \/ InitGrid
    \/ InitGridOverrun
    \/ OpenFiles
    \/ SkipLine
    \/ UpdateCell
    \/ UpdateOutside
    \/ WriteResults

Spec == Init /\ [][Next]_vars

-----------------------------------------------------------------------------
(* blockminmax.tcl: arguments and node lists *)

\* the argument loop and the test of gotregion and gotpath; without both the
\* script prints the usage and exits
TclParseArgs ==
    /\ tpc = "args"
    /\ tcl' = [tcl EXCEPT
                 !.xmin = targv.R.xmin, !.xmax = targv.R.xmax,
                 !.ymin = targv.R.ymin, !.ymax = targv.R.ymax,
                 !.gotregion = targv.R.given,
                 !.gotpath = targv.PATH # "none",
                 !.find_min = ~targv.MAX,
                 !.preset = IF targv.MAX THEN E10(-1) ELSE E10(1),
                 !.fix_min = targv.FIXMIN,
                 !.tie_lower = targv.TIELOW]
    /\ tpc' = IF targv.R.given /\ targv.PATH # "none" THEN "nodes" ELSE "usage"
    /\ UNCHANGED <<cVars, targv, l_x, l_y, ar, tin, tpos, writes, tout>>

\* [format %.1f v] for a v that is not half way between two tenths
FormatTenths(v) == ((v + (Scale \div 20)) \div (Scale \div 10)) * (Scale \div 10)

\* for {set x $lo} {$x <= $hi} {set x [format %.1f [expr {$x + 1.0}]]}
RECURSIVE TclNodeList(_, _)
TclNodeList(x, hi) ==
    IF x <= hi THEN <<x>> \o TclNodeList(FormatTenths(x + Scale), hi) ELSE <<>>

\* the elements of a list
Elems(l) == {l[i] : i \in 1 .. Len(l)}

\* the node lists, ar(x,y) preset for every node, and the input opened
TclBuildGrid ==
    /\ tpc = "nodes"
    /\ l_x' = TclNodeList(tcl.xmin, tcl.xmax)
    /\ l_y' = TclNodeList(tcl.ymin, tcl.ymax)
    /\ ar' = [k \in Elems(l_x') \X Elems(l_y') |-> tcl.preset]
    /\ tin' \in TclFiles
    /\ tpc' = "read"
    /\ UNCHANGED <<cVars, targv, tcl, tpos, writes, tout>>

-----------------------------------------------------------------------------
(* blockminmax.tcl: findClosestValue *)

\* abs($targetValue - $node), as whole part and fine part
AbsDiff(t, node) ==
    IF t.c > node \/ (t.c = node /\ t.e >= 0)
    THEN Num(t.c - node, t.e) ELSE Num(node - t.c, -t.e)

\* a < b on such differences
DiffLess(a, b) == a.c < b.c \/ (a.c = b.c /\ a.e < b.e)

\* $node < $targetValue and $node > $targetValue
NodeBelow(node, t) == node < t.c \/ (node = t.c /\ t.e > 0)
NodeAbove(node, t) == node > t.c \/ (node = t.c /\ t.e < 0)

\* a candidate replaces the closest value: nearer, or with tie_lower as near
\* and smaller
Closer(tl, d, node, minDiff, closestValue) ==
    DiffLess(d, minDiff) \/ (tl /\ d = minDiff /\ node < closestValue)

\* the while loop of the binary search, from (low, high, closestValue,
\* minDiff) to its exit: by "return $currentValue" or with low > high
RECURSIVE SearchLoop(_, _, _, _, _, _, _)
SearchLoop(list, t, tl, low, high, closestValue, minDiff) ==
    IF low > high
    THEN [exact |-> FALSE, low |-> low, high |-> high,
          closestValue |-> closestValue, minDiff |-> minDiff]
    ELSE LET mid == (low + high) \div 2
             currentValue == list[mid + 1]
             currentDiff == AbsDiff(t, currentValue)
             cv == IF Closer(tl, currentDiff, currentValue, minDiff, closestValue)
                   THEN currentValue ELSE closestValue
             md == IF DiffLess(currentDiff, minDiff) THEN currentDiff ELSE minDiff
         IN  IF NodeBelow(currentValue, t)
             THEN SearchLoop(list, t, tl, mid + 1, high, cv, md)
             ELSE IF NodeAbove(currentValue, t)
             THEN SearchLoop(list, t, tl, low, mid - 1, cv, md)
             ELSE [exact |-> TRUE, low |-> low, high |-> high,
                   closestValue |-> currentValue, minDiff |-> md]

\* findClosestValue with the global tie_lower as tl: ok is FALSE for the
\* empty list ("Error: List is empty.")
FindClosest(list, t, tl) ==
    IF Len(list) = 0 THEN [ok |-> FALSE, value |-> 0]
    ELSE LET s == SearchLoop(list, t, tl, 0, Len(list) - 1,
                             list[1], AbsDiff(t, list[1]))
             atLow == IF s.low < Len(list) THEN list[s.low + 1] ELSE 0
             useLow == s.low < Len(list) /\
                       Closer(tl, AbsDiff(t, atLow), atLow, s.minDiff, s.closestValue)
             cv1 == IF useLow THEN atLow ELSE s.closestValue
             md1 == IF s.low < Len(list) /\ DiffLess(AbsDiff(t, atLow), s.minDiff)
                    THEN AbsDiff(t, atLow) ELSE s.minDiff
             atHigh == IF s.high >= 0 THEN list[s.high + 1] ELSE 0
             useHigh == s.high >= 0 /\
                        Closer(tl, AbsDiff(t, atHigh), atHigh, md1, cv1)
         IN  [ok |-> TRUE,
              value |-> IF s.exact THEN s.closestValue
                        ELSE IF useHigh THEN atHigh ELSE cv1]

findClosestValue(orderedList, targetValue) ==
    FindClosest(orderedList, targetValue, tcl.tie_lower)

-----------------------------------------------------------------------------
(* blockminmax.tcl: the update, the reading loop and the output *)

\* a < b on the values ar holds: modelled z values and the presets
TclLess(a, b) ==
    IF a.k = "e10" /\ b.k = "e10" THEN a.v < b.v
    ELSE IF a.k = "e10" THEN a.v < 0
    ELSE IF b.k = "e10" THEN b.v > 0
    ELSE a.v < b.v

\* the update with -FIXMIN whether or not it was given
TclReplacesFixed(g, z, cur) ==
    IF g.find_min THEN TclLess(z, cur) ELSE TclLess(cur, z)

\* "set ar($x,$y) $z" is reached: the rule under -FIXMIN, and the original
\* if / elseif
TclReplaces(g, z, cur) ==
    IF g.fix_min
    THEN (IF g.find_min THEN TclLess(z, cur) ELSE TclLess(cur, z))
    ELSE (g.find_min /\ TclLess(z, cur)) \/ TclLess(cur, z)

\* the line gets returns next
TclNextLine == tin[tpos + 1]

\* one pass of the while loop: scan, snap x and y, update ar
TclReadLine ==
    /\ tpc = "read"
    /\ tpos < Len(tin)
    /\ TclNextLine.kind = "point"
    /\ LET x == findClosestValue(l_x, TclNextLine.x).value
           y == findClosestValue(l_y, TclNextLine.y).value
           z == Fin(TclNextLine.z)
       IN  /\ ar' = IF TclReplaces(tcl, z, ar[<<x, y>>])
                    THEN [ar EXCEPT ![<<x, y>>] = z] ELSE ar
           /\ writes' = Append(writes, [line |-> TclNextLine, key |-> <<x, y>>])
    /\ tpos' = tpos + 1
    /\ UNCHANGED <<cVars, tpc, targv, tcl, l_x, l_y, tin, tout>>

\* foreach x $l_x { foreach y $l_y { if {$z != $preset} { puts ... } } },
\* from the k-th pair on
RECURSIVE TclEmit(_, _, _, _, _)
TclEmit(k, lx, ly, a, preset) ==
    IF k >= Len(lx) * Len(ly) THEN <<>>
    ELSE LET x == lx[(k \div Len(ly)) + 1]
             y == ly[(k % Len(ly)) + 1]
         IN  (IF a[<<x, y>>] # preset
              THEN <<[x |-> x, y |-> y, z |-> a[<<x, y>>]]>> ELSE <<>>)
             \o TclEmit(k + 1, lx, ly, a, preset)

\* gets returns 0 or less, at the end of the file or at an empty line: the
\* loop ends and the output is written
TclWriteResults ==
    /\ tpc = "read"
    /\ IF tpos = Len(tin) THEN TRUE ELSE TclNextLine.kind # "point"
    /\ tout' = TclEmit(0, l_x, l_y, ar, tcl.preset)
    /\ tpc' = "done"
    /\ UNCHANGED <<cVars, targv, tcl, l_x, l_y, ar, tin, tpos, writes>>

NextTcl ==
    \/ TclParseArgs
    \/ TclBuildGrid
    \/ TclReadLine
    \/ TclWriteResults

\* the script has started; blockminmax.c is not running
InitTcl ==
    /\ pc = "off"
    /\ argv = [R |-> Region(FALSE, 0, 0, 0, 0), I |-> Inc(FALSE, Fin(0)),
               MAX |-> FALSE, tclround |-> FALSE, extra |-> "none",
               PATH |-> "none", o |-> "writable"]
    /\ opt = NoOpt
    /\ nx = 0 /\ ny = 0 /\ ncell = 0 /\ gridLen = 0
    /\ grid = <<>> /\ hit = <<>>
    /\ heapOk = TRUE
    /\ file = <<>>
    /\ pos = 0
    /\ routed = <<>>
    /\ outOpen = FALSE
    /\ out = <<>>
    /\ err = ""
    /\ exit = "running"
    /\ tpc = "args"
    /\ targv \in TclArgvs
    /\ tcl = TclGlobals
    /\ l_x = <<>> /\ l_y = <<>>
    /\ ar = <<>>
    /\ tin = <<>>
    /\ tpos = 0
    /\ writes = <<>>
    /\ tout = <<>>

SpecTcl == InitTcl /\ [][NextTcl]_vars

-----------------------------------------------------------------------------
(* Vocabulary of the properties *)

\* the accepted points sent to cell c so far, as positions in routed
RoutedTo(c) == {i \in 1 .. Len(routed) : routed[i].idx = c}

\* the z values sent to cell c so far
RoutedZ(c) == {routed[i].line.z : i \in RoutedTo(c)}

HitCells == {c \in DOMAIN hit : hit[c]}

\* region 0..2 x 0..2, spacing 1, minimum mode
TestRegion ==
    /\ opt.xmin = 0 /\ opt.xmax = 2 * Scale
    /\ opt.ymin = 0 /\ opt.ymax = 2 * Scale
    /\ opt.inc = Fin(Scale)
    /\ opt.find_min

\* the text of a whole number i printed by %.10g
Whole(i) == [neg |-> FALSE, int |-> i, frac |-> <<>>]

\* the output line "x y z" of whole numbers
Triplet(x, y, z) == [x |-> Whole(x), y |-> Whole(y), z |-> Whole(z)]

OutSet == {out[k] : k \in 1 .. Len(out)}

-----------------------------------------------------------------------------
(* C1 *)

\* C1: under either clamped addressing (llround or --tclround), the index
\* used for every update satisfies 0 <= ix < nx and 0 <= iy < ny, so that
\* idx = ix + nx*iy < nx*ny.
C1_IndexInLattice ==
    \A i \in 1 .. Len(routed) :
        /\ 0 <= routed[i].ix /\ routed[i].ix < nx
        /\ 0 <= routed[i].iy /\ routed[i].iy < ny
        /\ routed[i].idx < nx * ny

-----------------------------------------------------------------------------
(* C2 *)

\* C2: for every cell that has been written, the stored aggregate is one of
\* the z values routed to the cell and, in minimum mode, <= each of them
\* (in maximum mode, >= each of them).
C2_AggregateIsExtremum ==
    \A c \in HitCells :
        /\ grid[c].k = "fin"
        /\ grid[c].v \in RoutedZ(c)
        /\ \A z \in RoutedZ(c) :
             IF opt.find_min THEN grid[c].v <= z ELSE grid[c].v >= z

-----------------------------------------------------------------------------
(* C3 *)

\* C3: a cell's hit flag is set exactly when an accepted point has been
\* mapped to it; an unhit cell holds the sentinel; at the end the output has
\* one record per hit cell and none for an unhit cell; and the test data in
\* the test region under the default addressing gives
\* {(0,0,5), (1,0,7), (1,1,10), (2,2,9)}.
C3_HitIffMapped ==
    /\ \A c \in DOMAIN hit : hit[c] <=> RoutedTo(c) # {}
    /\ \A c \in DOMAIN grid : ~hit[c] => grid[c] = Preset(opt)
    /\ pc = "done" =>
         /\ Len(out) = Cardinality(HitCells)
         /\ \A c \in DOMAIN hit :
              LET r == Record(c, opt, nx, grid)
              IN  IF hit[c] THEN r \in OutSet
                  ELSE \A k \in 1 .. Len(out) : out[k].x # r.x \/ out[k].y # r.y
    /\ (pc = "done" /\ TestRegion /\ ~opt.tcl_round /\ file = TestData) =>
         OutSet = {Triplet(0, 0, 5), Triplet(1, 0, 7),
                   Triplet(1, 1, 10), Triplet(2, 2, 9)}

\* the default run of the unit test has finished
C3_Witness ==
    /\ pc = "done" /\ TestRegion /\ ~opt.tcl_round /\ file = TestData
    /\ Len(out) = 4

-----------------------------------------------------------------------------
(* C4 *)

\* coordinate v lies exactly k + 1/2 steps above lo, for a whole k
HalfWay(v, lo) ==
    v.e = 0 /\ 2 * ((v.c - lo) % opt.inc.v) = opt.inc.v

\* the k of HalfWay
StepsBelow(v, lo) == (v.c - lo) \div opt.inc.v

\* C4: under the default addressing a point exactly k + 0.5 steps from the
\* origin of an axis, 0 <= k <= n-2, is sent to index k+1 on that axis.
C4_HalfGoesUp ==
    ~opt.tcl_round =>
        \A i \in 1 .. Len(routed) :
            LET r == routed[i]
                kx == StepsBelow(r.line.x, opt.xmin)
                ky == StepsBelow(r.line.y, opt.ymin)
            IN  /\ (HalfWay(r.line.x, opt.xmin) /\ 0 <= kx /\ kx <= nx - 2)
                      => r.ix = kx + 1
                /\ (HalfWay(r.line.y, opt.ymin) /\ 0 <= ky /\ ky <= ny - 2)
                      => r.iy = ky + 1

\* the point (0.5, 0.5) of the test data has gone to cell (1, 1)
C4_Witness ==
    /\ ~opt.tcl_round /\ TestRegion
    /\ \E i \in 1 .. Len(routed) :
         /\ routed[i].line.x = Num(50, 0) /\ routed[i].line.y = Num(50, 0)
         /\ routed[i].ix = 1 /\ routed[i].iy = 1
         /\ hit[routed[i].idx]

-----------------------------------------------------------------------------
(* C5 *)

\* the fraction of the offset of v exceeds 0.5 + 1e-12: more than half a
\* step on the 1/Scale scale, or exactly half a step plus a fine part that
\* is more than 1e-12 of a step, or just below a whole step
AboveHalfPlusEps(v, lo) ==
    LET n == v.c - lo
        d == opt.inc.v
    IN  \/ 2 * (n % d) > d
        \/ 2 * (n % d) = d /\ v.e * Scale > EpsFine * d
        \/ n % d = 0 /\ v.e < 0

\* floor of the offset of v
FloorSteps(v, lo) ==
    IF (v.c - lo) % opt.inc.v = 0 /\ v.e < 0
    THEN StepsBelow(v, lo) - 1 ELSE StepsBelow(v, lo)

\* whole steps within long long (the conversion of anything else is unspecified)
Convertible(m) == LLONG_MIN <= m /\ m <= LLONG_MAX

\* C5: under --tclround a point exactly k + 0.5 steps from the origin of an
\* axis, 0 <= k <= n-1, is sent to index k; a point whose fraction exceeds
\* 0.5 + 1e-12 has floor(t) + 1 as its index before clamping; and in the
\* test run the point (0.5, 0.5, 10) goes to cell (0,0), which keeps its 5.
C5_HalfGoesDown ==
    opt.tcl_round =>
        /\ \A i \in 1 .. Len(routed) :
            LET r == routed[i]
                kx == StepsBelow(r.line.x, opt.xmin)
                ky == StepsBelow(r.line.y, opt.ymin)
                fx == FloorSteps(r.line.x, opt.xmin)
                fy == FloorSteps(r.line.y, opt.ymin)
            IN  /\ (HalfWay(r.line.x, opt.xmin) /\ 0 <= kx /\ kx <= nx - 1)
                      => r.ix = kx
                /\ (HalfWay(r.line.y, opt.ymin) /\ 0 <= ky /\ ky <= ny - 1)
                      => r.iy = ky
                /\ (AboveHalfPlusEps(r.line.x, opt.xmin) /\ Convertible(fx + 1))
                      => r.ix_ll = fx + 1
                /\ (AboveHalfPlusEps(r.line.y, opt.ymin) /\ Convertible(fy + 1))
                      => r.iy_ll = fy + 1
        /\ (TestRegion /\ file = TestData /\ pos >= 2) =>
              /\ routed[2].ix = 0 /\ routed[2].iy = 0
              /\ grid[0] = Fin(5 * Scale)

\* the --tclround test run is past its second line: the first point, with
\* fraction 0.51, went up to index 0 and the half-way point went down to it
C5_Witness ==
    /\ opt.tcl_round /\ TestRegion /\ file = TestData /\ pos >= 2
    /\ AboveHalfPlusEps(routed[1].line.x, opt.xmin)
    /\ routed[1].ix_ll = 0
    /\ HalfWay(routed[2].line.x, opt.xmin)
    /\ routed[2].idx = 0
    /\ grid[0] = Fin(5 * Scale)

-----------------------------------------------------------------------------
(* C6, C7, C8: the options --gmtbin and --tclfmt *)

\* the gridline indices of the README: col = round((x - xmin)/dx),
\* row = ny - 1 - round((y - ymin)/dy)
GmtCol(line) == RoundHalfAway(line.x.c - opt.xmin, opt.inc.v, line.x.e)
GmtRow(line) == (ny - 1) - RoundHalfAway(line.y.c - opt.ymin, opt.inc.v, line.y.e)

\* C6: with --gmtbin the run uses the gridline addressing, under which only
\* a point whose col is in [0, nx) and row in [0, ny) reaches a cell.
C6_GmtbinDropsOutside ==
    argv.extra = "--gmtbin" =>
        /\ err # "Unknown option"
        /\ \A i \in 1 .. Len(routed) :
             /\ 0 <= GmtCol(routed[i].line) /\ GmtCol(routed[i].line) < nx
             /\ 0 <= GmtRow(routed[i].line) /\ GmtRow(routed[i].line) < ny

\* the command line of the unit test, with one more option
TestCommand(extra, tclround) ==
    /\ argv.R = Region(TRUE, 0, 2 * Scale, 0, 2 * Scale)
    /\ argv.I = Inc(TRUE, Fin(Scale))
    /\ ~argv.MAX
    /\ argv.tclround = tclround
    /\ argv.extra = extra
    /\ argv.PATH = "readable" /\ argv.o = "writable"

\* the text of a whole number i printed by %.1f
OneDecimal(i) == [neg |-> FALSE, int |-> i, frac |-> <<0>>]

\* C7: the --gmtbin run of the unit test ends successfully with exactly the
\* records {(0.0,0.0,5), (1.0,0.0,7), (2.0,2.0,9)}.
C7_GmtbinTestRun ==
    (TestCommand("--gmtbin", FALSE) /\ exit # "running" /\ err # "Out of memory") =>
        /\ exit = "success"
        /\ file = TestData =>
             OutSet = {[x |-> OneDecimal(0), y |-> OneDecimal(0), z |-> Whole(5)],
                       [x |-> OneDecimal(1), y |-> OneDecimal(0), z |-> Whole(7)],
                       [x |-> OneDecimal(2), y |-> OneDecimal(2), z |-> Whole(9)]}

\* C8: a run with --tclfmt is accepted, and each z it writes is the text of
\* the z of the point that last changed the cell.
C8_TclfmtAccepted ==
    argv.extra = "--tclfmt" =>
        /\ err # "Unknown option"
        /\ pc = "done" =>
             \A c \in HitCells :
                 \E k \in 1 .. Len(out), i \in RoutedTo(c) :
                     /\ out[k].z = FmtG(routed[i].line.z)
                     /\ grid[c] = Fin(routed[i].line.z)

-----------------------------------------------------------------------------
(* C9, C10 *)

\* round((hi - lo) / inc) + 1, halves away from zero
RoundedSteps(lo, hi) == RoundHalfAway(hi - lo, opt.inc.v, 0) + 1

\* C9: once the dimensions are computed for a valid configuration,
\* nx = round((xmax - xmin)/inc) + 1 and ny = round((ymax - ymin)/inc) + 1,
\* and both are at least 1; no run goes on to allocate with a dimension
\* below 1.
C9_Dimensions ==
    /\ pc = "cells" =>
         /\ nx = RoundedSteps(opt.xmin, opt.xmax)
         /\ ny = RoundedSteps(opt.ymin, opt.ymax)
    /\ pc \in {"cells", "alloc", "init", "open", "stream", "done"} =>
         nx >= 1 /\ ny >= 1

\* C10: a run that exits with failure has opened no output file, read no
\* line and written no record; and a run that has opened the output file
\* has none of the fatal conditions: its region and spacing are valid, its
\* dimensions are at least 1, its cell count fits size_t, and its input
\* file is readable.
C10_FatalBeforeOutput ==
    /\ exit = "failure" => ~outOpen /\ pos = 0 /\ out = <<>>
    /\ outOpen =>
         /\ opt.xmax > opt.xmin /\ opt.ymax > opt.ymin
         /\ Less(Fin(0), opt.inc)
         /\ nx >= 1 /\ ny >= 1
         /\ nx * ny <= SIZE_MAX
         /\ argv.PATH = "readable"
-----------------------------------------------------------------------------
(* C11 *)

\* C11: when nx * ny exceeds SIZE_MAX the run ends in failure with the
\* overflow message and neither array has been allocated; a run that gets to
\* the allocation has ncell equal to the exact product nx * ny.
C11_OverflowIsFatal ==
    /\ (pc # "cells" /\ nx * ny > SIZE_MAX) =>
         /\ pc = "failed" /\ exit = "failure"
         /\ err = "Grid size too large (overflow)"
         /\ gridLen = 0 /\ grid = <<>> /\ hit = <<>>
    /\ pc \in {"alloc", "init", "open", "stream", "done", "crashed"} =>
         /\ nx * ny <= SIZE_MAX
         /\ ncell = nx * ny

\* a lattice whose cell count does not fit size_t has been refused
C11_Witness ==
    /\ nx >= 1 /\ ny >= 1 /\ nx * ny > SIZE_MAX
    /\ pc = "failed" /\ err = "Grid size too large (overflow)"

-----------------------------------------------------------------------------
(* C12 *)

\* C12: reading a line that is not three whitespace-separated numeric tokens
\* (blank, comment, malformed, or a single token) changes no aggregate and
\* no hit flag, raises no error, and the run goes on to the next line.
C12_SkippedIsNoOp ==
    [][(pc = "stream" /\ pos < Len(file) /\ NextLine.kind # "point") =>
          /\ grid' = grid /\ hit' = hit
          /\ err' = err /\ exit' = exit
          /\ pc' = "stream" /\ pos' = pos + 1]_vars
-----------------------------------------------------------------------------
(* C13 *)

\* the lines written to key k so far, as positions in writes
WritesTo(k) == {i \in 1 .. Len(writes) : writes[i].key = k}

\* the largest of a non-empty set of numbers
MaxOf(S) == CHOOSE m \in S : \A n \in S : n <= m

\* C13: in the script without -FIXMIN, a cell that has been written holds,
\* in minimum mode, the z of the most recent line sent to it, and in maximum
\* mode the greatest z sent to it (there a value gives way only to a strictly
\* greater one).
C13_LegacyLastWriter ==
    ~tcl.fix_min =>
        \A k \in DOMAIN ar :
            WritesTo(k) # {} =>
                IF tcl.find_min
                THEN ar[k] = Fin(writes[MaxOf(WritesTo(k))].line.z)
                ELSE ar[k] = Fin(MaxOf({writes[i].line.z : i \in WritesTo(k)}))

\* without -FIXMIN, in minimum mode, a cell holds a z larger than one sent
\* to it earlier
C13_Witness ==
    /\ ~tcl.fix_min /\ tcl.find_min
    /\ \E k \in DOMAIN ar :
         \E i, j \in WritesTo(k) :
             /\ i < j /\ j = MaxOf(WritesTo(k))
             /\ writes[i].line.z < writes[j].line.z
             /\ ar[k] = Fin(writes[j].line.z)
-----------------------------------------------------------------------------
(* C14 *)

\* the uniformly spaced node list lo, lo + inc, ..., lo + (n-1)*inc
UniformNodes(lo, n, inc) == [k \in 1 .. n |-> lo + (k - 1) * inc]

\* the node of index i on the axis that starts at lo
NodeAt(lo, i) == lo + i * opt.inc.v

\* C14: under --tclround, the node of the index a point is sent to on an
\* axis is the value findClosestValue returns, with tie_lower set, for the
\* point's coordinate and the uniform node list of that axis.
C14_ClosedFormIsSearch ==
    opt.tcl_round =>
        \A i \in 1 .. Len(routed) :
            LET r == routed[i]
                sx == FindClosest(UniformNodes(opt.xmin, nx, opt.inc.v), r.line.x, TRUE)
                sy == FindClosest(UniformNodes(opt.ymin, ny, opt.inc.v), r.line.y, TRUE)
            IN  /\ sx.ok /\ NodeAt(opt.xmin, r.ix) = sx.value
                /\ sy.ok /\ NodeAt(opt.ymin, r.iy) = sy.value
-----------------------------------------------------------------------------
(* C15 *)

\* the fraction of the offset of v lies in [0.5, 0.5 + 1e-12]
InTieWindow(v, lo) ==
    /\ 2 * ((v.c - lo) % opt.inc.v) = opt.inc.v
    /\ v.e >= 0
    /\ ~AboveHalfPlusEps(v, lo)

\* the clamped indices the strategy with tcl_round = b gives coordinate v on
\* an axis of n nodes that starts at lo
IndexUnder(b, v, lo, n) ==
    {Clamp(i, n) : i \in RawIndex(v, lo, [opt EXCEPT !.tcl_round = b])}

\* C15: for every point and each axis the default strategy and --tclround
\* give the same clamped index, except where the fraction of the offset is
\* in [0.5, 0.5 + 1e-12] and 0 <= floor(t) <= n-2: there the default gives
\* floor(t) + 1 and --tclround gives floor(t).
C15_StrategiesAgree ==
    \A i \in 1 .. Len(routed) :
        \A axis \in {"x", "y"} :
            LET v  == IF axis = "x" THEN routed[i].line.x ELSE routed[i].line.y
                lo == IF axis = "x" THEN opt.xmin ELSE opt.ymin
                n  == IF axis = "x" THEN nx ELSE ny
                used == IF axis = "x" THEN routed[i].ix ELSE routed[i].iy
                f  == FloorSteps(v, lo)
                dflt == IF opt.tcl_round THEN IndexUnder(FALSE, v, lo, n) ELSE {used}
                tlow == IF opt.tcl_round THEN {used} ELSE IndexUnder(TRUE, v, lo, n)
            IN  IF InTieWindow(v, lo) /\ 0 <= f /\ f <= n - 2
                THEN dflt = {f + 1} /\ tlow = {f}
                ELSE \A a \in dflt, b \in tlow : a = b
-----------------------------------------------------------------------------
(* C16 *)

\* the orderings of n lines
Orderings(n) ==
    {p \in [1 .. n -> 1 .. n] : \A i, j \in 1 .. n : p[i] = p[j] => i = j}

\* the lines of f in the order p
Reordered(f, p) == [i \in 1 .. Len(f) |-> f[p[i]]]

\* the lattices the streaming loop can end with when it reads lines from the
\* k-th on, starting from aggregates g and flags h
RECURSIVE StreamFrom(_, _, _, _)
StreamFrom(lines, k, g, h) ==
    IF k > Len(lines) THEN {[grid |-> g, hit |-> h]}
    ELSE IF ~Parsed(lines[k]) THEN StreamFrom(lines, k + 1, g, h)
    ELSE UNION {
        IF t.idx >= ncell THEN StreamFrom(lines, k + 1, g, h)
        ELSE StreamFrom(lines, k + 1,
                 IF Replaces(opt, h[t.idx], ZOf(lines[k]), g[t.idx])
                 THEN [g EXCEPT ![t.idx] = ZOf(lines[k])] ELSE g,
                 [h EXCEPT ![t.idx] = TRUE]) :
        t \in Targets(lines[k], opt, nx, ny) }

\* the lattices a run over the lines in the order p can end with
FinalLattices(p) ==
    StreamFrom(Reordered(file, p), 1,
               [i \in 0 .. ncell - 1 |-> Preset(opt)],
               [i \in 0 .. ncell - 1 |-> FALSE])

\* C16: a finished run has the lattice (aggregates and hit flags) that a run
\* over any other ordering of the same lines ends with; and a cell no point
\* was mapped to is as it was initialised.
C16_OrderIndependent ==
    /\ pc = "done" =>
         \A p \in Orderings(Len(file)) :
             \A l \in FinalLattices(p) : l.grid = grid /\ l.hit = hit
    /\ \A c \in DOMAIN grid :
         RoutedTo(c) = {} => ~hit[c] /\ grid[c] = Preset(opt)
-----------------------------------------------------------------------------
(* C17 *)

\* C17: for a lattice that has passed the overflow check, the byte size
\* ncell * sizeof(double) fits size_t, the allocation holds ncell doubles,
\* the initialisation stays inside it, and so does every index
\* idx = ix + nx*iy with ix < nx and iy < ny that is used for an update.
C17_ByteSizeFits ==
    /\ pc \in {"alloc", "init", "open", "stream", "done", "crashed"} =>
         ncell * SizeofDouble <= SIZE_MAX
    /\ pc \in {"init", "open", "stream", "done", "crashed"} =>
         /\ gridLen >= ncell
         /\ \A i \in 1 .. Len(routed) :
              (routed[i].ix < nx /\ routed[i].iy < ny) => routed[i].idx < gridLen
    /\ (pc = "crashed" /\ pos = 0 /\ ~outOpen) => ncell <= gridLen

====
